---- MODULE Spec2Model ----
(***************************************************************************)
(* Model of the pull-request review agent (src/unnamed/part_000): the file *)
(* filter, the prompt packer, the retry orchestration, suggestion          *)
(* de-duplication and the inline-fix generator.                            *)
(*                                                                         *)
(* Strings are TLA+ strings; a character is a string of length one.        *)
(***************************************************************************)
EXTENDS Integers, Sequences, FiniteSets, TLC

VARIABLES
    pc,                       \* position of the running function
    arg,                      \* argument of a function called on its own
    ret,                      \* its return value, <<>> before it returns
    files,                    \* processPullRequest's files: PRFile[]
    rcFiles,                  \* reviewChanges's files: PRFile[]
    filteredFiles,            \* files.filter(filterFile)
    patchesWithinModelLimit,  \* reviewChanges: files that fit alone
    patchesOutsideModelLimit, \* reviewChanges: files that do not
    groups,                   \* reviewChanges: the groups handed to reviewFiles
    log,                      \* console.log lines that carry a number or a notice
    includeSuggestions,       \* processPullRequest's flag
    strategy,                 \* reviewChangesRetry: index of the builder pair in turn
    attempts,                 \* reviewChangesRetry: outcome of each builder pair tried
    structuredComments,       \* the review's structuredComments
    inlineComments,           \* processPullRequest: one slot per structured comment
    inlineResponses,          \* what the model answered for each structured comment
    modelCalls,               \* generateChatCompletion calls made by reviewDiff
    fetches,                  \* getGitFile calls
    inlineCalls,              \* generateInlineComments calls
    result                    \* what the run returned or threw, <<>> while running

vars == <<pc, arg, ret, files, rcFiles, filteredFiles, patchesWithinModelLimit,
          patchesOutsideModelLimit, groups, log, includeSuggestions, strategy,
          attempts, structuredComments, inlineComments, inlineResponses,
          modelCalls, fetches, inlineCalls, result>>

callVars == <<arg, ret>>

packVars == <<rcFiles, patchesWithinModelLimit, patchesOutsideModelLimit, groups,
             log>>

runVars == <<files, filteredFiles, includeSuggestions, strategy, attempts,
             structuredComments, inlineComments, inlineResponses, modelCalls,
             fetches, inlineCalls, result>>

(***************************************************************************)
(* String primitives of the language runtime, as the code uses them.       *)
(***************************************************************************)

\* s[i - 1] of a JavaScript string, 1-based here.
Ch(s, i) == SubSeq(s, i, i)

\* Array.prototype.pop() read as "the last element".
Last(seq) == seq[Len(seq)]

\* Index of the first sep in s at or after position i, 0 when there is none.
RECURSIVE IndexFrom(_, _, _)
IndexFrom(s, sep, i) ==
    IF i > Len(s) THEN 0
    ELSE IF Ch(s, i) = sep THEN i
    ELSE IndexFrom(s, sep, i + 1)

\* String.prototype.split(sep) for a one-character separator: "" gives <<"">>.
RECURSIVE Split(_, _)
Split(s, sep) ==
    LET i == IndexFrom(s, sep, 1)
    IN  IF i = 0 THEN <<s>>
        ELSE <<SubSeq(s, 1, i - 1)>> \o Split(SubSeq(s, i + 1, Len(s)), sep)

\* Array.prototype.join(sep): the empty array gives "".
RECURSIVE Join(_, _)
Join(parts, sep) ==
    IF Len(parts) = 0 THEN ""
    ELSE IF Len(parts) = 1 THEN parts[1]
    ELSE parts[1] \o sep \o Join(Tail(parts), sep)

LowerChar(c) ==
    CASE c = "A" -> "a" [] c = "B" -> "b" [] c = "C" -> "c" [] c = "D" -> "d"
      [] c = "E" -> "e" [] c = "F" -> "f" [] c = "G" -> "g" [] c = "H" -> "h"
      [] c = "I" -> "i" [] c = "J" -> "j" [] c = "K" -> "k" [] c = "L" -> "l"
      [] c = "M" -> "m" [] c = "N" -> "n" [] c = "O" -> "o" [] c = "P" -> "p"
      [] c = "Q" -> "q" [] c = "R" -> "r" [] c = "S" -> "s" [] c = "T" -> "t"
      [] c = "U" -> "u" [] c = "V" -> "v" [] c = "W" -> "w" [] c = "X" -> "x"
      [] c = "Y" -> "y" [] c = "Z" -> "z" [] OTHER -> c

\* String.prototype.toLowerCase().
RECURSIVE toLowerCase(_)
toLowerCase(s) ==
    IF Len(s) = 0 THEN ""
    ELSE LowerChar(Ch(s, 1)) \o toLowerCase(SubSeq(s, 2, Len(s)))

\* String.prototype.startsWith(prefix).
startsWith(s, prefix) ==
    /\ Len(s) >= Len(prefix)
    /\ SubSeq(s, 1, Len(prefix)) = prefix

\* The characters \s matches and trim() removes, among those the model uses.
IsSpace(c) == c \in {" ", "\t", "\n", "\r"}

\* Length of the leading whitespace run of s: the match of /^(\s*)/.
RECURSIVE LeadingSpaces(_)
LeadingSpaces(s) ==
    IF Len(s) > 0 /\ IsSpace(Ch(s, 1))
    THEN 1 + LeadingSpaces(SubSeq(s, 2, Len(s)))
    ELSE 0

RECURSIVE TrailingSpaces(_)
TrailingSpaces(s) ==
    IF Len(s) > 0 /\ IsSpace(Ch(s, Len(s)))
    THEN 1 + TrailingSpaces(SubSeq(s, 1, Len(s) - 1))
    ELSE 0

\* String.prototype.trim().
trim(s) ==
    LET a == LeadingSpaces(s)
    IN  IF a = Len(s) THEN ""
        ELSE SubSeq(s, a + 1, Len(s) - TrailingSpaces(s))

(***************************************************************************)
(* filterFile                                                              *)
(***************************************************************************)

extensionsToIgnore ==
    {"pdf", "png", "jpg", "jpeg", "gif", "mp4", "mp3", "md", "json", "env",
     "toml", "svg", "ipynb", "wasm"}

filesToIgnore ==
    {"package-lock.json", "yarn.lock", ".gitignore", "package.json",
     "tsconfig.json", "poetry.lock", "readme.md", "packages.txt", "utils.py",
     "requirements.txt", "tumor-classify.ipynb", "tree-sitter-python.wasm"}

filterFile(file) ==
    LET filename      == Last(Split(toLowerCase(file.filename), "/"))
        splitFilename == Split(toLowerCase(file.filename), ".")
        extension     == toLowerCase(Last(splitFilename))
    IN  IF filename # "" /\ filename \in filesToIgnore THEN FALSE
        ELSE IF Len(splitFilename) <= 1 THEN FALSE
        ELSE IF extension # "" /\ extension \in extensionsToIgnore THEN FALSE
        ELSE TRUE

\* Array.prototype.filter with filterFile.
RECURSIVE FilterFiles(_)
FilterFiles(fs) ==
    IF Len(fs) = 0 THEN <<>>
    ELSE (IF filterFile(Head(fs)) THEN <<Head(fs)>> ELSE <<>>)
         \o FilterFiles(Tail(fs))

(***************************************************************************)
(* ./prompts is not among the sources: the patch renderer, the token       *)
(* estimator and the limit test are modelled from the design document.     *)
(* A rendered patch is the file name on a line of its own followed by the  *)
(* diff hunk; the estimator counts the non-empty lines of a text; a        *)
(* conversation is the builder's scaffolding followed by the joined        *)
(* patches.                                                                *)
(***************************************************************************)

TokenBudget == 14

XMLScaffoldTokens == 2

PlainScaffoldTokens == 1

\* The ordered builder pairs processPullRequest hands to reviewChangesRetry.
Builders ==
    << [convoBuilder |-> "getXMLReviewPrompt",
        responseBuilder |-> "curriedXMLResponseBuilder"],
       [convoBuilder |-> "getReviewPrompt",
        responseBuilder |-> "basicResponseBuilder"] >>

buildPatchPrompt(file) == file.filename \o "\n" \o file.patch

RECURSIVE CountNonEmpty(_)
CountNonEmpty(lines) ==
    IF Len(lines) = 0 THEN 0
    ELSE (IF Head(lines) = "" THEN 0 ELSE 1) + CountNonEmpty(Tail(lines))

getTokenLength(text) == CountNonEmpty(Split(text, "\n"))

ScaffoldTokens(convoBuilder) ==
    IF convoBuilder = "getXMLReviewPrompt" THEN XMLScaffoldTokens
    ELSE PlainScaffoldTokens

RECURSIVE Patches(_)
Patches(fs) ==
    IF Len(fs) = 0 THEN <<>>
    ELSE <<buildPatchPrompt(Head(fs))>> \o Patches(Tail(fs))

\* constructPrompt: the conversation for a list of files, as the diff it
\* carries and the builder that wraps it.
constructPrompt(fs, convoBuilder) ==
    [convoBuilder |-> convoBuilder, diff |-> Join(Patches(fs), "\n")]

ConversationTokens(messages) ==
    ScaffoldTokens(messages.convoBuilder) + getTokenLength(messages.diff)

isConversationWithinLimit(messages) ==
    ConversationTokens(messages) <= TokenBudget

(***************************************************************************)
(* The prompt packer                                                       *)
(***************************************************************************)

\* The position of extension e among the buckets, 0 when it has none yet.
RECURSIVE BucketIndex(_, _, _)
BucketIndex(buckets, e, i) ==
    IF i > Len(buckets) THEN 0
    ELSE IF buckets[i].extension = e THEN i
    ELSE BucketIndex(buckets, e, i + 1)

\* groupFilesByExtension: the Map as its entries in insertion order. A file
\* whose extension is the empty string fails `if (extension)` and is in no
\* bucket.
RECURSIVE GroupInto(_, _)
GroupInto(buckets, fs) ==
    IF Len(fs) = 0 THEN buckets
    ELSE LET file      == Head(fs)
             extension == toLowerCase(Last(Split(file.filename, ".")))
             i         == BucketIndex(buckets, extension, 1)
         IN  IF extension = "" THEN GroupInto(buckets, Tail(fs))
             ELSE IF i = 0
             THEN GroupInto(Append(buckets, [extension |-> extension,
                                             files |-> <<file>>]), Tail(fs))
             ELSE GroupInto([buckets EXCEPT ![i].files = Append(@, file)],
                            Tail(fs))

groupFilesByExtension(fs) == GroupInto(<<>>, fs)

\* A sort that puts a file before the files of its own length: equal
\* lengths come out in reverse of their original order.
RECURSIVE InsertByLengthBeforeTies(_, _)
InsertByLengthBeforeTies(sorted, file) ==
    IF Len(sorted) = 0 THEN <<file>>
    ELSE IF Head(sorted).patchTokenLength < file.patchTokenLength
    THEN <<Head(sorted)>> \o InsertByLengthBeforeTies(Tail(sorted), file)
    ELSE <<file>> \o sorted

\* Array.prototype.sort((a, b) => a.patchTokenLength - b.patchTokenLength):
\* the sort is stable, so a file goes after the files that are not longer.
RECURSIVE InsertByLength(_, _)
InsertByLength(sorted, file) ==
    IF Len(sorted) = 0 THEN <<file>>
    ELSE IF Head(sorted).patchTokenLength <= file.patchTokenLength
    THEN <<Head(sorted)>> \o InsertByLength(Tail(sorted), file)
    ELSE <<file>> \o sorted

RECURSIVE SortByLength(_)
SortByLength(fs) ==
    IF Len(fs) = 0 THEN <<>>
    ELSE InsertByLength(SortByLength(SubSeq(fs, 1, Len(fs) - 1)), Last(fs))

\* A greedy loop that closes a group without looking whether the file that
\* failed the probe was merely added to it.
RECURSIVE GreedyNoProbe(_, _, _, _)
GreedyNoProbe(processGroups, currentGroup, rest, convoBuilder) ==
    IF Len(rest) = 0
    THEN IF Len(currentGroup) > 0 THEN Append(processGroups, currentGroup)
         ELSE processGroups
    ELSE GreedyNoProbe(processGroups, Append(currentGroup, Head(rest)),
                       Tail(rest), convoBuilder)

\* The loop over a sorted bucket (lines 135-151).
RECURSIVE Greedy(_, _, _, _)
Greedy(processGroups, currentGroup, rest, convoBuilder) ==
    IF Len(rest) = 0
    THEN IF Len(currentGroup) > 0 THEN Append(processGroups, currentGroup)
         ELSE processGroups
    ELSE LET file == Head(rest)
             isPotentialGroupWithinLimit ==
                 isConversationWithinLimit(
                     constructPrompt(Append(currentGroup, file), convoBuilder))
         IN  IF isPotentialGroupWithinLimit
             THEN Greedy(processGroups, Append(currentGroup, file),
                         Tail(rest), convoBuilder)
             ELSE Greedy(IF Len(currentGroup) > 0
                         THEN Append(processGroups, currentGroup)
                         ELSE processGroups,
                         <<file>>, Tail(rest), convoBuilder)

\* The loop over the extension buckets (lines 125-153).
RECURSIVE PackBuckets(_, _)
PackBuckets(buckets, convoBuilder) ==
    IF Len(buckets) = 0 THEN <<>>
    ELSE LET filesForExt == Head(buckets).files
             extGroupWithinModelLimit ==
                 isConversationWithinLimit(
                     constructPrompt(filesForExt, convoBuilder))
         IN  (IF extGroupWithinModelLimit THEN <<filesForExt>>
              ELSE Greedy(<<>>, <<>>, SortByLength(filesForExt), convoBuilder))
             \o PackBuckets(Tail(buckets), convoBuilder)

processWithinLimitFiles(fs, convoBuilder) ==
    LET convoWithinModelLimit ==
            isConversationWithinLimit(constructPrompt(fs, convoBuilder))
    IN  IF ~convoWithinModelLimit
        THEN PackBuckets(groupFilesByExtension(fs), convoBuilder)
        ELSE <<fs>>

\* A transform that tests the line after trimming it, so that a context
\* line whose text starts with "-" goes too.
RECURSIVE KeepNotRemovedTrimmed(_)
KeepNotRemovedTrimmed(lines) ==
    IF Len(lines) = 0 THEN <<>>
    ELSE (IF startsWith(trim(Head(lines)), "-") THEN <<>>
          ELSE <<Head(lines)>>)
         \o KeepNotRemovedTrimmed(Tail(lines))

\* stripRemovedLines: the patch without its lines that start with "-".
RECURSIVE KeepNotRemoved(_)
KeepNotRemoved(lines) ==
    IF Len(lines) = 0 THEN <<>>
    ELSE (IF startsWith(Head(lines), "-") THEN <<>> ELSE <<Head(lines)>>)
         \o KeepNotRemoved(Tail(lines))

stripRemovedLines(originalFile) ==
    [originalFile EXCEPT
        !.patch = Join(KeepNotRemoved(Split(originalFile.patch, "\n")), "\n")]

RECURSIVE StripAll(_)
StripAll(fs) ==
    IF Len(fs) = 0 THEN <<>>
    ELSE <<stripRemovedLines(Head(fs))>> \o StripAll(Tail(fs))

\* The files of fs whose conversation alone is (fits = TRUE) or is not
\* (fits = FALSE) within the limit, in the order of fs.
RECURSIVE FitAlone(_, _, _)
FitAlone(fs, convoBuilder, fits) ==
    IF Len(fs) = 0 THEN <<>>
    ELSE (IF isConversationWithinLimit(
                 constructPrompt(<<Head(fs)>>, convoBuilder)) = fits
          THEN <<Head(fs)>> ELSE <<>>)
         \o FitAlone(Tail(fs), convoBuilder, fits)

\* The files processOutsideLimitFiles gives up on (exceedingLimits).
exceedingLimits(fs, convoBuilder) ==
    LET stripped == StripAll(fs)
    IN  IF Len(fs) = 0 THEN <<>>
        ELSE IF isConversationWithinLimit(constructPrompt(stripped, convoBuilder))
        THEN <<>>
        ELSE FitAlone(stripped, convoBuilder, FALSE)

processOutsideLimitFiles(fs, convoBuilder) ==
    LET stripped == StripAll(fs)
        convoWithinModelLimit ==
            isConversationWithinLimit(constructPrompt(stripped, convoBuilder))
    IN  IF Len(fs) = 0 THEN <<>>
        ELSE IF convoWithinModelLimit THEN <<stripped>>
        ELSE processWithinLimitFiles(FitAlone(stripped, convoBuilder, TRUE),
                                     convoBuilder)

\* Lines 351-355: every filtered file gets its patchTokenLength.
RECURSIVE WithTokenLength(_)
WithTokenLength(fs) ==
    IF Len(fs) = 0 THEN <<>>
    ELSE <<[Head(fs) EXCEPT
              !.patchTokenLength = getTokenLength(buildPatchPrompt(Head(fs)))]>>
         \o WithTokenLength(Tail(fs))

(***************************************************************************)
(* reviewChanges, up to the groups it hands to reviewFiles                 *)
(***************************************************************************)

\* Lines 351-355 write patchTokenLength into the caller's file objects, which
\* processPullRequest's files and filteredFiles hold too.
RECURSIVE MeasureFiltered(_)
MeasureFiltered(fs) ==
    IF Len(fs) = 0 THEN <<>>
    ELSE (IF filterFile(Head(fs)) THEN WithTokenLength(<<Head(fs)>>)
          ELSE <<Head(fs)>>)
         \o MeasureFiltered(Tail(fs))

\* Lines 349-370: filter, measure, and split by "fits alone".
RC_Classify ==
    /\ pc = "rc_start"
    /\ LET convoBuilder == Builders[strategy].convoBuilder
           filtered     == WithTokenLength(FilterFiles(rcFiles))
       IN  /\ patchesWithinModelLimit' = FitAlone(filtered, convoBuilder, TRUE)
           /\ patchesOutsideModelLimit' = FitAlone(filtered, convoBuilder, FALSE)
    /\ rcFiles' = MeasureFiltered(rcFiles)
    /\ files' = MeasureFiltered(files)
    /\ filteredFiles' = MeasureFiltered(filteredFiles)
    /\ pc' = "rc_pack"
    /\ UNCHANGED <<groups, log, callVars, includeSuggestions, strategy,
                   attempts, structuredComments, inlineComments,
                   inlineResponses, modelCalls, fetches, inlineCalls, result>>

\* Lines 372-389: the two packer calls, the two log lines (and the notice
\* processOutsideLimitFiles logs at line 209), and the group list.
RC_Pack ==
    /\ pc = "rc_pack"
    /\ LET convoBuilder == Builders[strategy].convoBuilder
           withinLimitsPatchGroups ==
               processWithinLimitFiles(patchesWithinModelLimit, convoBuilder)
           exceedingLimitsPatchGroups ==
               processOutsideLimitFiles(patchesOutsideModelLimit, convoBuilder)
           notice ==
               IF Len(exceedingLimits(patchesOutsideModelLimit, convoBuilder)) > 0
               THEN <<[text |-> "TODO: Need to further chunk large file changes.",
                       number |-> <<>>]>>
               ELSE <<>>
       IN  /\ groups' = withinLimitsPatchGroups \o exceedingLimitsPatchGroups
           /\ log' = log \o notice \o
                  <<[text |-> "within limits groups.",
                     number |-> <<Len(withinLimitsPatchGroups)>>],
                    [text |-> "files outside limit, skipping them.",
                     number |-> <<Len(patchesOutsideModelLimit)>>]>>
    /\ pc' = "rc_review"
    /\ UNCHANGED <<rcFiles, patchesWithinModelLimit, patchesOutsideModelLimit,
                   callVars, files, filteredFiles, includeSuggestions, strategy,
                   attempts, structuredComments, inlineComments,
                   inlineResponses, modelCalls, fetches, inlineCalls, result>>

(***************************************************************************)
(* Inputs of the packer: up to MaxFiles files, the i-th named by the i-th  *)
(* letter, with an extension of PackExtensions and a patch of PatchShapes  *)
(* (<<added lines, removed lines>>).                                       *)
(***************************************************************************)

MaxFiles == 3

PackExtensions == {"ts", "py", ""}

PatchShapes == {<<4, 0>>, <<9, 0>>, <<4, 9>>, <<13, 0>>}

RECURSIVE Repeat(_, _)
Repeat(line, n) == IF n = 0 THEN <<>> ELSE <<line>> \o Repeat(line, n - 1)

MakePatch(shape) ==
    Join(Repeat("-b", shape[2]) \o Repeat("+a", shape[1]), "\n")

MakeFile(i, extension, shape) ==
    [filename         |-> Ch("abcdefgh", i) \o "." \o extension,
     patch            |-> MakePatch(shape),
     patchTokenLength |-> 0,
     current_contents |-> <<>>]

FileLists(maxLen, extensions, shapes) ==
    UNION {
        { [i \in 1..n |-> MakeFile(i, choice[i][1], choice[i][2])] :
            choice \in [1..n -> extensions \X shapes] } :
        n \in 0..maxLen }

InitPack ==
    /\ pc = "rc_start"
    /\ rcFiles \in FileLists(MaxFiles, PackExtensions, PatchShapes)
    /\ strategy \in 1..Len(Builders)
    /\ patchesWithinModelLimit = <<>>
    /\ patchesOutsideModelLimit = <<>>
    /\ groups = <<>>
    /\ log = <<>>
    /\ arg = <<>>
    /\ ret = <<>>
    /\ files = <<>>
    /\ filteredFiles = <<>>
    /\ includeSuggestions = FALSE
    /\ attempts = <<>>
    /\ structuredComments = <<>>
    /\ inlineComments = <<>>
    /\ inlineResponses = <<>>
    /\ modelCalls = <<>>
    /\ fetches = 0
    /\ inlineCalls = 0
    /\ result = <<>>

NextPack == RC_Classify \/ RC_Pack

SpecPack == InitPack /\ [][NextPack]_vars

(***************************************************************************)
(* Claims about the packer, checked under SpecPack                         *)
(***************************************************************************)

\* The file names of all groups, group after group.
RECURSIVE GroupedNames(_)
GroupedNames(gs) ==
    IF Len(gs) = 0 THEN <<>>
    ELSE [i \in 1..Len(Head(gs)) |-> Head(gs)[i].filename]
         \o GroupedNames(Tail(gs))

Occurrences(name, names) ==
    Cardinality({i \in 1..Len(names) : names[i] = name})

FitsAlone(file, convoBuilder) ==
    isConversationWithinLimit(constructPrompt(<<file>>, convoBuilder))

\* A file whose conversation alone exceeds the budget, stripped or not.
PermanentlyOversized(file, convoBuilder) ==
    /\ ~FitsAlone(file, convoBuilder)
    /\ ~FitsAlone(stripRemovedLines(file), convoBuilder)

\* The filtered files that are in no group.
AbsentFiles ==
    LET filtered == FilterFiles(rcFiles)
    IN  {i \in 1..Len(filtered) :
            Occurrences(filtered[i].filename, GroupedNames(groups)) = 0}

\* C1: once reviewChanges has built its groups, every file that passed
\* filterFile is in exactly one group, except the files still over the budget
\* after their removed lines are stripped, which are in none; and the groups
\* hold no other file.
C1_GroupsPartitionInput ==
    pc = "rc_review" =>
        LET convoBuilder == Builders[strategy].convoBuilder
            filtered     == FilterFiles(rcFiles)
            names        == GroupedNames(groups)
        IN  /\ \A i \in 1..Len(filtered) :
                   Occurrences(filtered[i].filename, names)
                     = IF PermanentlyOversized(filtered[i], convoBuilder)
                       THEN 0 ELSE 1
            /\ \A j \in 1..Len(names) :
                   \E i \in 1..Len(filtered) : filtered[i].filename = names[j]

\* C2: every group reviewChanges hands to reviewFiles has a conversation
\* (scaffolding plus the group's rendered patches) within the token budget.
C2_GroupsWithinBudget ==
    pc = "rc_review" =>
        \A g \in 1..Len(groups) :
            isConversationWithinLimit(
                constructPrompt(groups[g], Builders[strategy].convoBuilder))

\* C2 witness: the groups come from the greedy path (one extension bucket
\* split in two, the second group seeded by the file that failed the probe)
\* and from the stripped files.
C2_Witness ==
    /\ pc = "rc_review"
    /\ Len(groups) >= 3
    /\ Len(patchesWithinModelLimit) >= 2
    /\ \E g, h \in 1..Len(groups) :
           /\ g < h
           /\ groups[g][1] \in {patchesWithinModelLimit[i] :
                                  i \in 1..Len(patchesWithinModelLimit)}
           /\ groups[h][1] \in {patchesWithinModelLimit[i] :
                                  i \in 1..Len(patchesWithinModelLimit)}
           /\ Last(Split(groups[g][1].filename, "."))
                = Last(Split(groups[h][1].filename, "."))
    /\ \E g \in 1..Len(groups) : \E i \in 1..Len(groups[g]) :
           groups[g][i].patchTokenLength
             > getTokenLength(buildPatchPrompt(groups[g][i]))

\* C6: when files are dropped as still too large after stripping, the number
\* the "skipping them" log line reports is the number of filtered files that
\* are in no group.
C6_SkippedCountIsExact ==
    (/\ pc = "rc_review"
     /\ Len(exceedingLimits(patchesOutsideModelLimit,
                            Builders[strategy].convoBuilder)) > 0)
    => \E l \in 1..Len(log) :
           /\ log[l].text = "files outside limit, skipping them."
           /\ log[l].number = <<Cardinality(AbsentFiles)>>

\* C4: reviewChanges hands no empty group to reviewFiles, and no group at all
\* when no file passed the filter.
C4_NoEmptyGroup ==
    pc = "rc_review" =>
        /\ \A g \in 1..Len(groups) : Len(groups[g]) > 0
        /\ (Len(FilterFiles(rcFiles)) = 0 => groups = <<>>)

(***************************************************************************)
(* filterFile called on its own, on paths made of a directory part, a base *)
(* name and an extension part.                                             *)
(***************************************************************************)

FilterDirs == {"", "src/", "Docs/", "my.dir/", "a/b.c/"}

FilterBases ==
    {"main", "README", "readme", "package-lock", "Package", "utils",
     "yarn", "index.test", ".gitignore", "tumor-classify"}

FilterExtParts ==
    {"", ".", ".rs", ".json", ".JSON", ".md", ".lock", ".py", ".PNG", ".ts",
     ".ipynb", ".txt"}

FilterPaths ==
    {d \o b \o e : d \in FilterDirs, b \in FilterBases, e \in FilterExtParts}

InitFilter ==
    /\ pc = "filter_start"
    /\ arg \in {[filename |-> p] : p \in FilterPaths}
    /\ ret = <<>>
    /\ rcFiles = <<>>
    /\ strategy = 1
    /\ patchesWithinModelLimit = <<>>
    /\ patchesOutsideModelLimit = <<>>
    /\ groups = <<>>
    /\ log = <<>>
    /\ files = <<>>
    /\ filteredFiles = <<>>
    /\ includeSuggestions = FALSE
    /\ attempts = <<>>
    /\ structuredComments = <<>>
    /\ inlineComments = <<>>
    /\ inlineResponses = <<>>
    /\ modelCalls = <<>>
    /\ fetches = 0
    /\ inlineCalls = 0
    /\ result = <<>>

FilterFileCall ==
    /\ pc = "filter_start"
    /\ ret' = <<filterFile(arg)>>
    /\ pc' = "filter_done"
    /\ UNCHANGED <<arg, packVars, runVars>>

NextFilter == FilterFileCall

SpecFilter == InitFilter /\ [][NextFilter]_vars

\* The name of the file without its directories, lower-cased.
BaseName(path) == Last(Split(toLowerCase(path), "/"))

\* C5: filterFile rejects a file exactly when its path-stripped, lower-cased
\* name is in the name denylist, or its lower-cased extension is in the
\* extension denylist, or the file has no extension (its name has no ".");
\* "package-lock.json" and "README" are rejected and "main.rs" is accepted.
C5_FilterRejectsExactlyDenylisted ==
    pc = "filter_done" =>
        LET name      == BaseName(arg.filename)
            parts     == Split(name, ".")
            rejected  == \/ name \in filesToIgnore
                         \/ Len(parts) <= 1
                         \/ Last(parts) \in extensionsToIgnore
        IN  ret = <<~rejected>>

(***************************************************************************)
(* dedupSuggestions                                                        *)
(***************************************************************************)

\* PRSuggestionImpl is not among the sources: the identity is modelled from
\* the design document as the text combining filename, comment and code.
identity(suggestion) ==
    suggestion.filename \o ":" \o suggestion.comment \o ":" \o suggestion.code

\* The position of key among the entries of a Map, 0 when it has none.
RECURSIVE MapIndex(_, _, _)
MapIndex(entries, key, i) ==
    IF i > Len(entries) THEN 0
    ELSE IF entries[i].key = key THEN i
    ELSE MapIndex(entries, key, i + 1)

\* Map.prototype.set: a new key goes last, a known key keeps its place and
\* takes the new value.
MapSet(entries, key, value) ==
    LET i == MapIndex(entries, key, 1)
    IN  IF i = 0 THEN Append(entries, [key |-> key, value |-> value])
        ELSE [entries EXCEPT ![i].value = value]

\* A set() that leaves a known key alone.
MapSetIfAbsent(entries, key, value) ==
    LET i == MapIndex(entries, key, 1)
    IN  IF i = 0 THEN Append(entries, [key |-> key, value |-> value])
        ELSE entries

RECURSIVE SuggestionsMapKeepFirst(_, _)
SuggestionsMapKeepFirst(entries, suggestions) ==
    IF Len(suggestions) = 0 THEN entries
    ELSE SuggestionsMapKeepFirst(
             MapSetIfAbsent(entries, identity(Head(suggestions)),
                            Head(suggestions)),
             Tail(suggestions))

\* The forEach of lines 274-276.
RECURSIVE SuggestionsMap(_, _)
SuggestionsMap(entries, suggestions) ==
    IF Len(suggestions) = 0 THEN entries
    ELSE SuggestionsMap(
             MapSet(entries, identity(Head(suggestions)), Head(suggestions)),
             Tail(suggestions))

\* A dedupSuggestions that keeps the first suggestion of each identity.
dedupSuggestionsKeepFirst(suggestions) ==
    LET entries == SuggestionsMapKeepFirst(<<>>, suggestions)
    IN  [i \in 1..Len(entries) |-> entries[i].value]

dedupSuggestions(suggestions) ==
    LET entries == SuggestionsMap(<<>>, suggestions)
    IN  [i \in 1..Len(entries) |-> entries[i].value]

(***************************************************************************)
(* The inline-fix generator                                                *)
(***************************************************************************)

\* Array.prototype.slice(start, end) on a sequence, with 0-based arguments;
\* a negative argument counts from the end.
Slice(seq, start, end) ==
    LET n    == Len(seq)
        from == IF start < 0 THEN (IF n + start < 0 THEN 0 ELSE n + start)
                ELSE (IF start > n THEN n ELSE start)
        to   == IF end < 0 THEN (IF n + end < 0 THEN 0 ELSE n + end)
                ELSE (IF end > n THEN n ELSE end)
    IN  SubSeq(seq, from + 1, to)

RECURSIVE Indent(_, _)
Indent(indentation, codeLines) ==
    IF Len(codeLines) = 0 THEN <<>>
    ELSE <<indentation \o Head(codeLines)>>
         \o Indent(indentation, Tail(codeLines))

\* indentCodeFix, for a lineStart that names a line of the file.
indentCodeFix(file, code, lineStart) ==
    LET fileLines   == Split(file, "\n")
        firstLine   == fileLines[lineStart]
        codeLines   == Split(code, "\n")
        indentation == SubSeq(firstLine, 1, LeadingSpaces(firstLine))
    IN  Join(Indent(indentation, codeLines), "\n")

\* An isCodeSuggestionNew that compares the texts as they are, untrimmed.
isCodeSuggestionNewUntrimmed(contents, suggestion) ==
    LET fileLines   == Split(contents, "\n")
        targetLines == Join(Slice(fileLines, suggestion.line_start - 1,
                                  suggestion.line_end), "\n")
    IN  targetLines # suggestion.correction

isCodeSuggestionNew(contents, suggestion) ==
    LET fileLines   == Split(contents, "\n")
        targetLines == Join(Slice(fileLines, suggestion.line_start - 1,
                                  suggestion.line_end), "\n")
    IN  trim(targetLines) # trim(suggestion.correction)

Threw == [kind |-> "threw", value |-> <<>>]

Returned(value) == [kind |-> "returned", value |-> value]

\* The try block of generateInlineComments (lines 439-465). The model's
\* answer is `response`: the call throws, or the message has no function
\* call, or its arguments do not parse, or they parse to args.
InlineTry(suggestion, file, response) ==
    IF response.kind = "throws" THEN Threw
    ELSE IF response.kind = "no_function_call" THEN Threw
    ELSE IF response.kind = "bad_arguments" THEN Threw
    ELSE LET args == response.args
         IN  IF file.current_contents = <<>> THEN Threw
             ELSE LET contents == file.current_contents[1]
                  IN  IF args.lineStart \notin 1..Len(Split(contents, "\n"))
                      THEN Threw
                      ELSE LET codeFix ==
                                   [file       |-> suggestion.filename,
                                    line_start |-> args.lineStart,
                                    line_end   |-> args.lineEnd,
                                    correction |-> indentCodeFix(
                                        contents, args.code, args.lineStart),
                                    comment    |-> args.comment]
                           IN  IF isCodeSuggestionNew(contents, codeFix)
                               THEN Returned(<<codeFix>>)
                               ELSE Returned(<<>>)

\* A generateInlineComments without its catch.
generateInlineCommentsNoCatch(suggestion, file, response) ==
    InlineTry(suggestion, file, response)

\* generateInlineComments: the catch turns every throw into null.
generateInlineComments(suggestion, file, response) ==
    LET outcome == InlineTry(suggestion, file, response)
    IN  IF outcome.kind = "threw" THEN Returned(<<>>) ELSE outcome

(***************************************************************************)
(* dedupSuggestions called on its own                                      *)
(***************************************************************************)

MaxSuggestions == 3

SuggestionPool ==
    [describe : {"d1", "d2"}, type : {"bug"}, comment : {"c"},
     code : {"k", "m"}, filename : {"a.ts", "b.ts"}]

SeqsUpTo(S, maxLen) == UNION {[1..n -> S] : n \in 0..maxLen}

PackIdle ==
    /\ patchesWithinModelLimit = <<>>
    /\ patchesOutsideModelLimit = <<>>
    /\ groups = <<>>
    /\ log = <<>>

RunIdle ==
    /\ files = <<>>
    /\ filteredFiles = <<>>
    /\ includeSuggestions = FALSE
    /\ attempts = <<>>
    /\ structuredComments = <<>>
    /\ inlineComments = <<>>
    /\ inlineResponses = <<>>
    /\ modelCalls = <<>>
    /\ fetches = 0
    /\ inlineCalls = 0
    /\ result = <<>>

InitDedup ==
    /\ pc = "dedup_start"
    /\ arg \in SeqsUpTo(SuggestionPool, MaxSuggestions)
    /\ ret = <<>>
    /\ rcFiles = <<>>
    /\ strategy = 1
    /\ PackIdle
    /\ RunIdle

DedupCall ==
    /\ pc = "dedup_start"
    /\ ret' = <<dedupSuggestions(arg)>>
    /\ pc' = "dedup_done"
    /\ UNCHANGED <<arg, packVars, runVars>>

NextDedup == DedupCall

SpecDedup == InitDedup /\ [][NextDedup]_vars

\* The position of the last suggestion of `suggestions` with identity id.
LastWithIdentity(suggestions, id) ==
    CHOOSE k \in 1..Len(suggestions) :
        /\ identity(suggestions[k]) = id
        /\ \A m \in (k + 1)..Len(suggestions) : identity(suggestions[m]) # id

\* C7: dedupSuggestions returns one suggestion per identity of its input, the
\* last input suggestion of that identity, and applied to its own output it
\* returns the same set of suggestions.
C7_DedupKeepsLastPerIdentity ==
    pc = "dedup_done" =>
        LET out == ret[1]
        IN  /\ \A i, j \in 1..Len(out) :
                   identity(out[i]) = identity(out[j]) => i = j
            /\ {identity(out[i]) : i \in 1..Len(out)}
                 = {identity(arg[i]) : i \in 1..Len(arg)}
            /\ \A i \in 1..Len(out) :
                   out[i] = arg[LastWithIdentity(arg, identity(out[i]))]
            /\ {dedupSuggestions(out)[i] : i \in 1..Len(dedupSuggestions(out))}
                 = {out[i] : i \in 1..Len(out)}
            /\ Len(dedupSuggestions(out)) = Len(out)

\* C7 witness: an input in which an identity occurs twice with different
\* descriptions, between suggestions of another identity.
C7_Witness ==
    /\ pc = "dedup_done"
    /\ Len(arg) = 3
    /\ Len(ret[1]) = 2
    /\ identity(arg[1]) = identity(arg[3])
    /\ arg[1] # arg[3]
    /\ ret[1][1] = arg[3]

(***************************************************************************)
(* generateInlineComments called on its own, with a model answer that      *)
(* carries parsed arguments.                                               *)
(***************************************************************************)

MaxContentLen == 4

MaxCodeLen == 2

MaxLine == 2

RECURSIVE Strings(_, _)
Strings(alphabet, maxLen) ==
    IF maxLen = 0 THEN {""}
    ELSE LET shorter == Strings(alphabet, maxLen - 1)
         IN  shorter \cup {s \o c : s \in shorter, c \in alphabet}

InlineContents ==
    Strings({"a", " ", "\n"}, MaxContentLen) \cup {"def f():\n    pass\n"}

InlineCodes == Strings({"a", " "}, MaxCodeLen) \cup {"pass"}

InlineArgs ==
    [code : InlineCodes, lineStart : 0..MaxLine, lineEnd : 0..MaxLine,
     comment : {"fix"}]

InitInline ==
    /\ pc = "inline_start"
    /\ arg \in [suggestion : {[describe |-> "d1", type |-> "bug",
                               comment |-> "c", code |-> "k",
                               filename |-> "a.ts"]},
                file : {[filename |-> "a.ts", patch |-> "+a",
                         patchTokenLength |-> 0,
                         current_contents |-> <<c>>] : c \in InlineContents},
                response : {[kind |-> "function_call", args |-> a] :
                              a \in InlineArgs}]
    /\ ret = <<>>
    /\ rcFiles = <<>>
    /\ strategy = 1
    /\ PackIdle
    /\ RunIdle

InlineCall ==
    /\ pc = "inline_start"
    /\ ret' = <<generateInlineComments(arg.suggestion, arg.file, arg.response)>>
    /\ pc' = "inline_done"
    /\ UNCHANGED <<arg, packVars, runVars>>

NextInline == InlineCall

SpecInline == InitInline /\ [][NextInline]_vars

\* The text of lines first..last of contents (1-based, inclusive).
LinesText(contents, first, last) ==
    LET lines == Split(contents, "\n")
    IN  Join(SubSeq(lines, first,
                    IF last > Len(lines) THEN Len(lines) ELSE last), "\n")

\* C10: when the replacement, re-indented like line lineStart and trimmed,
\* equals the trimmed text of lines lineStart..lineEnd of the file,
\* generateInlineComments returns no fix; so a fix it returns differs from
\* the text it replaces.
C10_NoFixForSameCode ==
    pc = "inline_done" =>
        LET contents == arg.file.current_contents[1]
            args     == arg.response.args
            replaced == LinesText(contents, args.lineStart, args.lineEnd)
        IN  args.lineStart \in 1..Len(Split(contents, "\n")) =>
              /\ trim(indentCodeFix(contents, args.code, args.lineStart))
                    = trim(replaced)
                 => ret[1] = Returned(<<>>)
              /\ ret[1].value # <<>> =>
                    /\ ret[1].value[1].correction # replaced
                    /\ ret[1].value[1].correction
                         = indentCodeFix(contents, args.code, args.lineStart)

\* C10 witness: the file "def f():\n    pass\n" and the replacement "pass"
\* for lines 2-2 give no fix.
C10_Witness ==
    /\ pc = "inline_done"
    /\ arg.file.current_contents = <<"def f():\n    pass\n">>
    /\ arg.response.args.code = "pass"
    /\ arg.response.args.lineStart = 2
    /\ arg.response.args.lineEnd = 2
    /\ ret[1] = Returned(<<>>)

(***************************************************************************)
(* stripRemovedLines called on its own.  rcFiles holds the caller's array  *)
(* with the record as it was before the call, arg the record the function  *)
(* was handed, ret the record it returned.                                 *)
(***************************************************************************)

MaxPatchLen == 4

StripPatches ==
    Strings({"+", "-", " ", "a", "\n"}, MaxPatchLen) \cup {"+a\n-b\n c\n"}

StripFiles ==
    [filename : {"a.ts"}, patch : StripPatches, patchTokenLength : {0, 5},
     current_contents : {<<>>, <<"a\n-b">>}]

InitStrip ==
    /\ pc = "strip_start"
    /\ arg \in StripFiles
    /\ rcFiles = <<arg>>
    /\ ret = <<>>
    /\ strategy = 1
    /\ PackIdle
    /\ RunIdle

\* { ...originalFile, patch: strippedPatch } is a new record: the one the
\* function was handed is not written.
StripCall ==
    /\ pc = "strip_start"
    /\ ret' = <<stripRemovedLines(arg)>>
    /\ pc' = "strip_done"
    /\ UNCHANGED <<arg, packVars, runVars>>

NextStrip == StripCall

SpecStrip == InitStrip /\ [][NextStrip]_vars

\* The positions of the lines of `lines` that do not begin with "-".
KeptPositions(lines) ==
    {i \in 1..Len(lines) : Len(lines[i]) = 0 \/ Head(lines[i]) # Head("-")}

\* The lines at the kept positions, in ascending position.
KeptLines(lines) ==
    LET kept == KeptPositions(lines)
    IN  [j \in 1..Cardinality(kept) |->
            lines[CHOOSE i \in kept :
                     Cardinality({k \in kept : k <= i}) = j]]

\* C11: the patch stripRemovedLines returns is the lines of the original
\* patch that do not begin with "-", in their original order and joined by
\* newlines; every other field of the returned record equals the original's;
\* the record handed in is as it was before the call; stripping the returned
\* record again gives the same patch.
C11_StripRemovesExactlyMinusLines ==
    pc = "strip_done" =>
        /\ ret[1].patch = Join(KeptLines(Split(arg.patch, "\n")), "\n")
        /\ DOMAIN ret[1] = DOMAIN arg
        /\ \A field \in DOMAIN arg \ {"patch"} : ret[1][field] = arg[field]
        /\ arg = rcFiles[1]
        /\ stripRemovedLines(ret[1]).patch = ret[1].patch

\* C11 witness: the patch "+a\n-b\n c\n" has become "+a\n c\n", in a record
\* whose other fields are not all empty.
C11_Witness ==
    /\ pc = "strip_done"
    /\ arg.patch = "+a\n-b\n c\n"
    /\ ret[1].patch = "+a\n c\n"
    /\ arg.patchTokenLength = 5
    /\ arg.current_contents # <<>>

(***************************************************************************)
(* processWithinLimitFiles called on its own, with the arguments its two   *)
(* callers give it: reviewChanges passes measured files that fit alone;    *)
(* processOutsideLimitFiles passes stripped files that fit alone, when the *)
(* stripped set as a whole does not fit.  A stripped file still carries    *)
(* the patchTokenLength measured before it was stripped.                   *)
(***************************************************************************)

MaxWithinFiles == 3

WithinExtensions == {"ts", "py"}

\* <<added lines, removed lines>> of patches that fit alone.
WithinShapes == {<<2, 0>>, <<4, 0>>, <<9, 0>>}

\* Patches that do not fit alone and do once their removed lines are gone.
StrippedShapes == {<<4, 9>>, <<9, 4>>, <<4, 10>>}

WithinArgs ==
    { [caller |-> "reviewChanges", files |-> WithTokenLength(fs)] :
        fs \in FileLists(MaxWithinFiles, WithinExtensions, WithinShapes) }
    \cup
    { [caller |-> "processOutsideLimitFiles",
       files  |-> StripAll(WithTokenLength(fs))] :
        fs \in FileLists(MaxWithinFiles, WithinExtensions, StrippedShapes) }

InitWithin ==
    /\ pc = "within_start"
    /\ strategy \in 1..Len(Builders)
    /\ arg \in WithinArgs
    /\ LET convoBuilder == Builders[strategy].convoBuilder
       IN  /\ arg.files = FitAlone(arg.files, convoBuilder, TRUE)
           /\ arg.caller = "processOutsideLimitFiles" =>
                ~isConversationWithinLimit(
                     constructPrompt(arg.files, convoBuilder))
    /\ ret = <<>>
    /\ rcFiles = <<>>
    /\ PackIdle
    /\ RunIdle

WithinCall ==
    /\ pc = "within_start"
    /\ ret' = <<processWithinLimitFiles(arg.files,
                                        Builders[strategy].convoBuilder)>>
    /\ pc' = "within_done"
    /\ UNCHANGED <<arg, packVars, runVars>>

NextWithin == WithinCall

SpecWithin == InitWithin /\ [][NextWithin]_vars

\* The extension groupFilesByExtension reads off a file name.
Extension(file) == toLowerCase(Last(Split(file.filename, ".")))

\* The files of fs with extension e, in the order of fs.
BucketOf(fs, e) ==
    LET HasExtension(file) == Extension(file) = e
    IN  SelectSeq(fs, HasExtension)

\* The groups of gs whose files have extension e, in the order of gs.
GroupsOfExtension(gs, e) ==
    LET HasExtension(g) == Len(g) > 0 /\ Extension(g[1]) = e
    IN  SelectSeq(gs, HasExtension)

RECURSIVE Flatten(_)
Flatten(gs) == IF Len(gs) = 0 THEN <<>> ELSE Head(gs) \o Flatten(Tail(gs))

Fits(fs) ==
    isConversationWithinLimit(
        constructPrompt(fs, Builders[strategy].convoBuilder))

PositionIn(fs, file) == CHOOSE i \in 1..Len(fs) : fs[i] = file

\* taken holds the files of original, each once, in ascending
\* patchTokenLength, files of equal patchTokenLength in their order in
\* original.
AscendingStable(taken, original) ==
    /\ Len(taken) = Len(original)
    /\ \A i \in 1..Len(original) : \E j \in 1..Len(taken) : taken[j] = original[i]
    /\ \A i, j \in 1..Len(taken) :
         i < j =>
           \/ taken[i].patchTokenLength < taken[j].patchTokenLength
           \/ /\ taken[i].patchTokenLength = taken[j].patchTokenLength
              /\ PositionIn(original, taken[i]) < PositionIn(original, taken[j])

\* Every group fits, and no group could have taken the file that seeds the
\* next one.
MaximalRuns(gs) ==
    /\ \A k \in 1..Len(gs) : Len(gs[k]) > 0 /\ Fits(gs[k])
    /\ \A k \in 1..(Len(gs) - 1) : ~Fits(Append(gs[k], gs[k + 1][1]))

\* The files of fs whose patchTokenLength is n, in the order of fs.
OfLength(fs, n) ==
    LET HasLength(file) == file.patchTokenLength = n
    IN  SelectSeq(fs, HasLength)

MaxPRFiles == 2

MaxReviewSuggestions == 2

PRExtensions == {"ts", "md"}

PRPatchShapes == {<<4, 0>>, <<13, 0>>}

\* What getGitFile may find for a file at the head branch: nothing, or text.
PRContents == {<<>>, <<"a\n  b">>}

\* The suggestions a parsed XML review may carry: for the first file of the
\* pull request or for a file that is not part of it.
ReviewSuggestions ==
    [describe : {"d1"}, type : {"bug"}, comment : {"c"}, code : {"k"},
     filename : (IF Len(files) > 0 THEN {files[1].filename} ELSE {}) \cup {"zz.ts"}]

NoArgs == [code |-> "", lineStart |-> 0, lineEnd |-> 0, comment |-> ""]

\* What the model may answer to an inline-fix request.
InlineModelResponses ==
    {[kind |-> k, args |-> NoArgs] :
        k \in {"throws", "no_function_call", "bad_arguments"}}
    \cup {[kind |-> "function_call", args |-> a] :
            a \in [code : {"x", "b"}, lineStart : {2, 9}, lineEnd : {2},
                   comment : {"fix"}]}

\* Array.prototype.find by filename, as an index: 0 when no file has it.
RECURSIVE FindByName(_, _, _)
FindByName(fs, filename, i) ==
    IF i > Len(fs) THEN 0
    ELSE IF fs[i].filename = filename THEN i
    ELSE FindByName(fs, filename, i + 1)

NullResult == [kind |-> "returned", review |-> <<>>, suggestions |-> <<>>]

Init ==
    /\ pc = "ppr_start"
    /\ files \in FileLists(MaxPRFiles, PRExtensions, PRPatchShapes)
    /\ includeSuggestions \in BOOLEAN
    /\ filteredFiles = <<>>
    /\ rcFiles = <<>>
    /\ strategy = 1
    /\ attempts = <<>>
    /\ structuredComments = <<>>
    /\ inlineComments = <<>>
    /\ inlineResponses = <<>>
    /\ modelCalls = <<>>
    /\ fetches = 0
    /\ inlineCalls = 0
    /\ result = <<>>
    /\ arg = <<>>
    /\ ret = <<>>
    /\ PackIdle

\* A processPullRequest that goes on when no file passed the filter.
PPR_FilterNoEarlyReturn ==
    /\ pc = "ppr_start"
    /\ filteredFiles' = FilterFiles(files)
    /\ pc' = "ppr_preprocess"
    /\ UNCHANGED <<result, callVars, packVars, files, includeSuggestions,
                   strategy, attempts, structuredComments, inlineComments,
                   inlineResponses, modelCalls, fetches, inlineCalls>>

\* Lines 527-536: filter, and return the empty result when nothing is left.
PPR_Filter ==
    /\ pc = "ppr_start"
    /\ filteredFiles' = FilterFiles(files)
    /\ IF Len(FilterFiles(files)) = 0
       THEN /\ result' = <<NullResult>>
            /\ pc' = "done"
       ELSE /\ result' = result
            /\ pc' = "ppr_preprocess"
    /\ UNCHANGED <<callVars, packVars, files, includeSuggestions, strategy,
                   attempts, structuredComments, inlineComments,
                   inlineResponses, modelCalls, fetches, inlineCalls>>

\* Lines 537-541: preprocessFile fetches the old and the current contents of
\* every filtered file and writes them into the file object.
PPR_Preprocess ==
    /\ pc = "ppr_preprocess"
    /\ \E contents \in [1..Len(filteredFiles) -> PRContents] :
         /\ filteredFiles' =
                [i \in 1..Len(filteredFiles) |->
                    [filteredFiles[i] EXCEPT !.current_contents = contents[i]]]
         /\ files' =
                [i \in 1..Len(files) |->
                    LET k == FindByName(filteredFiles, files[i].filename, 1)
                    IN  IF k = 0 THEN files[i]
                        ELSE [files[i] EXCEPT !.current_contents = contents[k]]]
    /\ fetches' = fetches + 2 * Len(filteredFiles)
    /\ pc' = "retry_loop"
    /\ UNCHANGED <<callVars, packVars, includeSuggestions, strategy, attempts,
                   structuredComments, inlineComments, inlineResponses,
                   modelCalls, inlineCalls, result>>

\* Lines 508-511: the next builder pair is tried on the same files.
Retry_Try ==
    /\ pc = "retry_loop"
    /\ strategy <= Len(Builders)
    /\ rcFiles' = filteredFiles
    /\ pc' = "rc_start"
    /\ UNCHANGED <<callVars, patchesWithinModelLimit, patchesOutsideModelLimit,
                   groups, log, runVars>>

\* Line 518: no builder pair is left.
Retry_Exhausted ==
    /\ pc = "retry_loop"
    /\ strategy > Len(Builders)
    /\ result' = <<[kind |-> "threw", review |-> <<>>, suggestions |-> <<>>]>>
    /\ pc' = "done"
    /\ UNCHANGED <<callVars, packVars, files, filteredFiles, includeSuggestions,
                   strategy, attempts, structuredComments, inlineComments,
                   inlineResponses, modelCalls, fetches, inlineCalls>>

\* What reviewChanges ends with once the groups are built: a model call
\* fails, or the XML builder throws on the feedback, or the builder returns.
\* The XML builder reads at least one suggestion out of every feedback it
\* parses; the basic builder returns no structured comment.
ReviewOutcomes ==
    LET responseBuilder == Builders[strategy].responseBuilder
        xml == responseBuilder = "curriedXMLResponseBuilder"
    IN  (IF Len(groups) > 0
         THEN {[kind |-> "threw", value |-> [builder |-> "model call failed",
                                             structuredComments |-> <<>>]]}
         ELSE {})
        \cup (IF xml /\ Len(groups) > 0
              THEN {[kind |-> "threw", value |-> [builder |-> "XML parsing error",
                                                  structuredComments |-> <<>>]]}
              ELSE {})
        \cup {Returned([builder |-> responseBuilder, structuredComments |-> sc]) :
                sc \in IF xml
                       THEN {c \in SeqsUpTo(ReviewSuggestions, MaxReviewSuggestions) :
                               /\ Len(c) >= Len(groups)
                               /\ Len(groups) = 0 => Len(c) = 0}
                       ELSE {<<>>}}

\* Lines 391-403: one reviewFiles call per group, then the response builder.
RC_Review ==
    /\ pc = "rc_review"
    /\ modelCalls' = modelCalls \o [g \in 1..Len(groups) |-> Len(groups[g])]
    /\ \E outcome \in ReviewOutcomes : ret' = <<outcome>>
    /\ pc' = "rc_returned"
    /\ UNCHANGED <<arg, packVars, files, filteredFiles, includeSuggestions,
                   strategy, attempts, structuredComments, inlineComments,
                   inlineResponses, fetches, inlineCalls, result>>

Pending == [kind |-> "pending", value |-> <<>>]

\* A catch that gives up instead of going on to the next builder pair.
Retry_CatchGivesUp ==
    /\ pc = "rc_returned"
    /\ attempts' = Append(attempts, [strategy |-> strategy,
                                     kind     |-> ret[1].kind,
                                     value    |-> ret[1].value,
                                     files    |-> rcFiles])
    /\ IF ret[1].kind = "returned"
       THEN /\ structuredComments' = ret[1].value.structuredComments
            /\ inlineComments' =
                   IF includeSuggestions
                   THEN [i \in 1..Len(ret[1].value.structuredComments) |-> Pending]
                   ELSE <<>>
            /\ inlineResponses' =
                   IF includeSuggestions
                   THEN [i \in 1..Len(ret[1].value.structuredComments) |->
                            [kind |-> "pending", args |-> NoArgs]]
                   ELSE <<>>
            /\ strategy' = strategy
            /\ pc' = "ppr_inline"
       ELSE /\ strategy' = Len(Builders) + 1
            /\ pc' = "retry_loop"
            /\ UNCHANGED <<structuredComments, inlineComments, inlineResponses>>
    /\ UNCHANGED <<callVars, packVars, files, filteredFiles, includeSuggestions,
                   modelCalls, fetches, inlineCalls, result>>

\* Lines 509-516 and 556-560: reviewChanges returned, and its result is
\* reviewChangesRetry's, or it threw, and the loop goes on.
Retry_Catch ==
    /\ pc = "rc_returned"
    /\ attempts' = Append(attempts, [strategy |-> strategy,
                                     kind     |-> ret[1].kind,
                                     value    |-> ret[1].value,
                                     files    |-> rcFiles])
    /\ IF ret[1].kind = "returned"
       THEN /\ structuredComments' = ret[1].value.structuredComments
            /\ inlineComments' =
                   IF includeSuggestions
                   THEN [i \in 1..Len(ret[1].value.structuredComments) |-> Pending]
                   ELSE <<>>
            /\ inlineResponses' =
                   IF includeSuggestions
                   THEN [i \in 1..Len(ret[1].value.structuredComments) |->
                            [kind |-> "pending", args |-> NoArgs]]
                   ELSE <<>>
            /\ strategy' = strategy
            /\ pc' = "ppr_inline"
       ELSE /\ strategy' = strategy + 1
            /\ pc' = "retry_loop"
            /\ UNCHANGED <<structuredComments, inlineComments, inlineResponses>>
    /\ UNCHANGED <<callVars, packVars, files, filteredFiles, includeSuggestions,
                   modelCalls, fetches, inlineCalls, result>>

\* Lines 560-569: the callback for structured comment i. The calls run
\* concurrently; each fills its own slot.
PPR_Inline(i) ==
    /\ pc = "ppr_inline"
    /\ inlineComments[i] = Pending
    /\ LET suggestion == structuredComments[i]
           k          == FindByName(files, suggestion.filename, 1)
       IN  IF k = 0
           THEN /\ inlineComments' = [inlineComments EXCEPT ![i] = Returned(<<>>)]
                /\ inlineResponses' =
                       [inlineResponses EXCEPT
                           ![i] = [kind |-> "not_asked", args |-> NoArgs]]
                /\ inlineCalls' = inlineCalls
           ELSE \E response \in InlineModelResponses :
                /\ inlineComments' =
                       [inlineComments EXCEPT
                           ![i] = generateInlineComments(suggestion, files[k],
                                                         response)]
                /\ inlineResponses' = [inlineResponses EXCEPT ![i] = response]
                /\ inlineCalls' = inlineCalls + 1
    /\ UNCHANGED <<pc, callVars, packVars, files, filteredFiles,
                   includeSuggestions, strategy, attempts, structuredComments,
                   modelCalls, fetches, result>>

\* Array.prototype.filter((comment) => comment !== null) on the slots.
RECURSIVE NonNull(_)
NonNull(slots) ==
    IF Len(slots) = 0 THEN <<>>
    ELSE Head(slots).value \o NonNull(Tail(slots))

\* Lines 572-597: every slot is filled (Promise.all), and the run returns;
\* a rejected slot rejects the run.
PPR_Return ==
    /\ pc = "ppr_inline"
    /\ \A i \in 1..Len(inlineComments) : inlineComments[i] # Pending
    /\ result' =
           IF \E i \in 1..Len(inlineComments) : inlineComments[i].kind = "threw"
           THEN <<[kind |-> "threw", review |-> <<>>, suggestions |-> <<>>]>>
           ELSE <<[kind        |-> "returned",
                   review      |-> <<ret[1].value>>,
                   suggestions |-> NonNull(inlineComments)]>>
    /\ pc' = "done"
    /\ UNCHANGED <<callVars, packVars, files, filteredFiles, includeSuggestions,
                   strategy, attempts, structuredComments, inlineComments,
                   inlineResponses, modelCalls, fetches, inlineCalls>>

Next ==
    \/ PPR_Filter
    \/ PPR_Preprocess
    \/ Retry_Try
    \/ Retry_Exhausted
    \/ RC_Classify
    \/ RC_Pack
    \/ RC_Review
    \/ Retry_Catch
    \/ \E i \in 1..Len(inlineComments) : PPR_Inline(i)
    \/ PPR_Return

Spec == Init /\ [][Next]_vars

(***************************************************************************)
(* Claims about processPullRequest, checked under Spec                     *)
(***************************************************************************)

Names(fs) == [i \in 1..Len(fs) |-> fs[i].filename]

AllThrew(n) == \A i \in 1..n : attempts[i].kind = "threw"

\* C3: reviewChangesRetry tries the builder pairs in list order on the same
\* files; a pair is tried only after every earlier pair failed, and while a
\* pair that failed has a successor, the successor is tried; the run returns
\* what the first pair that succeeds returns, and throws exactly when every
\* pair failed.
C3_RetryInListOrder ==
    /\ \A i \in 1..Len(attempts) :
           /\ attempts[i].strategy = i
           /\ Names(attempts[i].files) = Names(filteredFiles)
    /\ Len(attempts) <= Len(Builders)
    /\ AllThrew(Len(attempts) - 1)
    /\ pc \in {"rc_start", "rc_pack", "rc_review", "rc_returned"} =>
           /\ Len(attempts) = strategy - 1
           /\ AllThrew(Len(attempts))
           /\ Names(rcFiles) = Names(filteredFiles)
    /\ (pc = "done" /\ Len(filteredFiles) > 0) =>
           /\ Len(attempts) >= 1
           /\ Last(attempts).kind = "threw" => Len(attempts) = Len(Builders)
           /\ result[1].kind = "threw"
                <=> (Len(attempts) = Len(Builders) /\ AllThrew(Len(attempts)))
           /\ result[1].kind = "returned" =>
                  /\ result[1].review = <<Last(attempts).value>>
                  /\ Last(attempts).value.builder
                       = Builders[Len(attempts)].responseBuilder

\* C3 witness: the first pair failed, the second succeeded, and the run
\* returned the second pair's review.
C3_Witness ==
    /\ pc = "done"
    /\ Len(attempts) = 2
    /\ attempts[1].kind = "threw"
    /\ attempts[2].kind = "returned"
    /\ result[1].kind = "returned"
    /\ result[1].review[1].builder = "basicResponseBuilder"

\* C8: when no file passes filterFile, processPullRequest returns the empty
\* result (review null, no suggestions) and makes no model call, no content
\* fetch and no inline-fix call.
C8_NothingToReview ==
    Len(FilterFiles(files)) = 0 =>
        /\ pc \in {"ppr_start", "done"}
        /\ modelCalls = <<>>
        /\ fetches = 0
        /\ inlineCalls = 0
        /\ pc = "done" => result = <<NullResult>>

\* C8 witness: a run on files that are all filtered out has returned.
C8_Witness ==
    /\ pc = "done"
    /\ Len(files) > 0
    /\ Len(FilterFiles(files)) = 0
    /\ result = <<NullResult>>

\* The model's answer for structured comment i makes the try block throw.
InlineFails(i) ==
    LET k == FindByName(files, structuredComments[i].filename, 1)
        response == inlineResponses[i]
    IN  /\ k # 0
        /\ \/ response.kind \in {"throws", "no_function_call", "bad_arguments"}
           \/ files[k].current_contents = <<>>
           \/ response.args.lineStart
                \notin 1..Len(Split(files[k].current_contents[1], "\n"))

\* The fix structured comment i is due: none when its file is unknown, when
\* the try block throws, or when the replacement is the code already there.
ExpectedFix(i) ==
    LET k == FindByName(files, structuredComments[i].filename, 1)
        args == inlineResponses[i].args
    IN  IF k = 0 \/ InlineFails(i) THEN <<>>
        ELSE LET contents   == files[k].current_contents[1]
                 correction == indentCodeFix(contents, args.code, args.lineStart)
             IN  IF trim(correction)
                      = trim(LinesText(contents, args.lineStart, args.lineEnd))
                 THEN <<>>
                 ELSE <<[file       |-> structuredComments[i].filename,
                         line_start |-> args.lineStart,
                         line_end   |-> args.lineEnd,
                         correction |-> correction,
                         comment    |-> args.comment]>>

RECURSIVE ExpectedFixes(_)
ExpectedFixes(i) ==
    IF i > Len(structuredComments) THEN <<>>
    ELSE ExpectedFix(i) \o ExpectedFixes(i + 1)

\* C9: a failure inside generateInlineComments (the model call throws, no
\* function call, unparsable arguments, a first line outside the file, null
\* contents) gives null for that suggestion and never rejects; the run
\* returns, with the fixes of all the other suggestions.
C9_InlineFailuresAreIsolated ==
    /\ \A i \in 1..Len(inlineComments) :
           /\ inlineComments[i].kind # "threw"
           /\ (inlineComments[i] # Pending /\ InlineFails(i))
                => inlineComments[i] = Returned(<<>>)
           /\ inlineComments[i] # Pending
                => inlineComments[i] = Returned(ExpectedFix(i))
    /\ (/\ pc = "done"
        /\ Len(attempts) > 0
        /\ Last(attempts).kind = "returned"
        /\ includeSuggestions) =>
           /\ result[1].kind = "returned"
           /\ result[1].suggestions = ExpectedFixes(1)

\* C9 witness: of two suggestions one failed because the model call threw and
\* the other's fix is returned.
C9_Witness ==
    /\ pc = "done"
    /\ Len(inlineComments) = 2
    /\ \E i, j \in 1..2 :
           /\ inlineResponses[i].kind = "throws"
           /\ InlineFails(i)
           /\ inlineComments[j].value # <<>>
    /\ Len(result[1].suggestions) = 1

====
